---- MODULE Spec2Model ----
(***************************************************************************)
(* Model of aws_sso_config_builder/gen_config.py.                          *)
(*                                                                         *)
(* Strings are sequences of character codes (code points), so that         *)
(* Python's string ordering is the lexicographic order of the sequences.   *)
(* 32 is " ", 45 is "-", 95 is "_", 88 is "X", 97.. are "a"..              *)
(***************************************************************************)
EXTENDS Integers, Sequences, FiniteSets, TLC

(* ------------------------------ bounds --------------------------------- *)
MaxNameLen == 2
MaxRules == 2
MaxSkew == 2
MaxAccounts == 2
MaxPolls == 3

(* --------------------------- program constants ------------------------- *)
Underscore == 95
Space == 32
Hyphen == 45
MarginMinutes == 5
PollInterval == 5
max_workers == 4

(* ------------------------------ strings -------------------------------- *)
SeqsUpTo(S, n) == UNION {[1..k -> S] : k \in 0..n}

\* Python's str comparison a < b: lexicographic by code point.
RECURSIVE StrLess(_, _)
StrLess(a, b) ==
    IF b = <<>> THEN FALSE
    ELSE IF a = <<>> THEN TRUE
    ELSE IF Head(a) # Head(b) THEN Head(a) < Head(b)
    ELSE StrLess(Tail(a), Tail(b))

StrLeq(a, b) == a = b \/ StrLess(a, b)

IsPrefix(p, s) == Len(p) <= Len(s) /\ SubSeq(s, 1, Len(p)) = p

\* re.sub(old, new, s) for a non-empty literal pattern: every leftmost
\* non-overlapping occurrence of old is replaced by new.
RECURSIVE re_sub(_, _, _)
re_sub(old, new, s) ==
    IF s = <<>> THEN <<>>
    ELSE IF IsPrefix(old, s)
         THEN new \o re_sub(old, new, SubSeq(s, Len(old) + 1, Len(s)))
         ELSE <<Head(s)>> \o re_sub(old, new, Tail(s))

(* --------------------------- munge_profile_name ------------------------ *)
\* A dict is a sequence of <<key, value>> pairs with distinct keys, in
\* insertion order.
DictKeys(d) == [i \in 1..Len(d) |-> d[i][1]]

HasKey(d, k) == \E i \in 1..Len(d) : d[i][1] = k

DictGet(d, k) == d[CHOOSE i \in 1..Len(d) : d[i][1] = k][2]

\* The built-in rules, in the order of the dict literal.
DefaultReplacements == << <<(<<Underscore>>), (<<Hyphen>>)>>, <<(<<Space>>), (<<Hyphen>>)>> >>

\* d |= dict.fromkeys(m): keys of m not yet in d are appended, keys already
\* in d keep their position.
RECURSIVE MergeKeys(_, _)
MergeKeys(keys, more) ==
    IF more = <<>> THEN keys
    ELSE IF \E i \in 1..Len(keys) : keys[i] = Head(more)
         THEN MergeKeys(keys, Tail(more))
         ELSE MergeKeys(Append(keys, Head(more)), Tail(more))

\* A ChainMap that iterated its first map first.
ChainMapKeysForward(first, second) == MergeKeys(DictKeys(first), DictKeys(second))

\* ChainMap.__iter__: the maps are walked in reverse, so the keys of the
\* last map come first, followed by the keys only the earlier maps have.
ChainMapKeys(first, second) == MergeKeys(DictKeys(second), DictKeys(first))

\* A ChainMap whose last map won a lookup.
ChainMapGetLast(first, second, k) ==
    IF HasKey(second, k) THEN DictGet(second, k) ELSE DictGet(first, k)

\* ChainMap.__getitem__: the first map that has the key wins.
ChainMapGet(first, second, k) ==
    IF HasKey(first, k) THEN DictGet(first, k) ELSE DictGet(second, k)

\* ChainMap(first, second).items() as a sequence of <<key, value>> pairs.
ChainMapItems(first, second) ==
    LET ks == ChainMapKeys(first, second)
    IN  [i \in 1..Len(ks) |-> <<ks[i], ChainMapGet(first, second, ks[i])>>]

RECURSIVE ApplyReplacements(_, _)
ApplyReplacements(items, s) ==
    IF items = <<>> THEN s
    ELSE ApplyReplacements(Tail(items), re_sub(Head(items)[1], Head(items)[2], s))

JoinedName(account_name, role_name) == account_name \o <<Hyphen>> \o role_name

munge_profile_name(account_name, role_name, regex_replacements) ==
    ApplyReplacements(ChainMapItems(regex_replacements, DefaultReplacements),
                      JoinedName(account_name, role_name))

(* ======================================================================= *)
(* Specification of munge_profile_name as a pure function: the inputs are  *)
(* drawn in the initial state and one step applies the function.           *)
(* ======================================================================= *)
VARIABLES mp_pc, mp_account_name, mp_role_name, mp_regex_replacements, mp_profile_name

mpVars == <<mp_pc, mp_account_name, mp_role_name, mp_regex_replacements, mp_profile_name>>

NameAlphabet == {97, Underscore, Space}

AccountNames == SeqsUpTo(NameAlphabet, MaxNameLen)

RoleNames == SeqsUpTo(NameAlphabet, 1)

Patterns == {<<Underscore>>, <<Space>>, <<Hyphen>>}

Replacements == {<<Hyphen>>, <<Underscore>>, <<88>>}

\* What validate_replacements hands over: a dict pattern -> replacement.
RegexReplacementDicts ==
    {d \in SeqsUpTo(Patterns \X Replacements, MaxRules) :
        \A i, j \in 1..Len(d) : d[i][1] = d[j][1] => i = j}

MungeIdle ==
    /\ mp_pc = "idle"
    /\ mp_account_name = <<>>
    /\ mp_role_name = <<>>
    /\ mp_regex_replacements = <<>>
    /\ mp_profile_name = <<>>

InitMunge ==
    /\ mp_pc = "call"
    /\ mp_account_name \in AccountNames
    /\ mp_role_name \in RoleNames
    /\ mp_regex_replacements \in RegexReplacementDicts
    /\ mp_profile_name = <<>>

MungeCall ==
    /\ mp_pc = "call"
    /\ mp_profile_name' =
           munge_profile_name(mp_account_name, mp_role_name, mp_regex_replacements)
    /\ mp_pc' = "return"
    /\ UNCHANGED <<mp_account_name, mp_role_name, mp_regex_replacements>>

(* ----------------------------- claims C2, C10 -------------------------- *)
MungeJoined == JoinedName(mp_account_name, mp_role_name)

\* The order the claim C2 states: the user's rules in the order given, then
\* the defaults the user did not override.
ReferenceOrder(user) ==
    user \o SelectSeq(DefaultReplacements, LAMBDA r : ~HasKey(user, r[1]))

\* C2 as stated: for every input the result of munge_profile_name equals the
\* result of applying the user's rules first, in the order given, and the
\* non-overridden defaults (underscore, then space) after them.
C2_UserRulesFirst ==
    mp_pc = "return" =>
        mp_profile_name =
            ApplyReplacements(ReferenceOrder(mp_regex_replacements), MungeJoined)

\* The order the code applies: the default keys first (underscore, then
\* space), each with the user's replacement when the user gave that key, and
\* after them the user's other rules in the order given.
AmendedOrder(user) ==
    [i \in 1..Len(DefaultReplacements) |->
        LET k == DefaultReplacements[i][1]
        IN  IF HasKey(user, k) THEN <<k, DictGet(user, k)>> ELSE DefaultReplacements[i]]
    \o SelectSeq(user, LAMBDA r : ~HasKey(DefaultReplacements, r[1]))

\* C2 amended: for every input the result of munge_profile_name equals the
\* result of applying the underscore rule, then the space rule (each with the
\* user's replacement if the user gave that pattern), and only after those the
\* user's remaining rules in the order given.
C2_DefaultKeysFirst ==
    mp_pc = "return" =>
        mp_profile_name =
            ApplyReplacements(AmendedOrder(mp_regex_replacements), MungeJoined)

\* C2's case: a user rule on a non-default pattern together with names on
\* which the two orders give different profile names.
C2_Witness ==
    /\ mp_pc = "return"
    /\ \E i \in 1..Len(mp_regex_replacements) :
           ~HasKey(DefaultReplacements, mp_regex_replacements[i][1])
    /\ mp_profile_name #
           ApplyReplacements(ReferenceOrder(mp_regex_replacements), MungeJoined)

UnderscoreToX == << <<(<<Underscore>>), (<<88>>)>> >>

\* C10: with the single user rule "_" -> "X", every underscore of the joined
\* name becomes "X", every space becomes a hyphen, and every other character
\* is kept.
C10_UserRuleOverridesDefault ==
    (mp_pc = "return" /\ mp_regex_replacements = UnderscoreToX) =>
        mp_profile_name =
            [i \in 1..Len(MungeJoined) |->
                IF MungeJoined[i] = Underscore THEN 88
                ELSE IF MungeJoined[i] = Space THEN Hyphen
                ELSE MungeJoined[i]]

\* C10's case: the rule "_" -> "X" applied to a name that holds both an
\* underscore and a space.
C10_Witness ==
    /\ mp_pc = "return"
    /\ mp_regex_replacements = UnderscoreToX
    /\ \E i \in 1..Len(MungeJoined) : MungeJoined[i] = Underscore
    /\ \E i \in 1..Len(MungeJoined) : MungeJoined[i] = Space

(* ======================================================================= *)
(* validate_id_client                                                      *)
(* ======================================================================= *)
\* Python values: None, a str that is empty, a str that json.loads rejects,
\* and a dict (a function from its keys to their values).  A str that holds
\* JSON text is the pair of kind "json" and the value the text encodes.
EmptyItems == [k \in {} |-> TRUE]

PyNone == [kind |-> "None", items |-> EmptyItems]

PyEmptyStr == [kind |-> "emptystr", items |-> EmptyItems]

PyGarbageStr == [kind |-> "garbagestr", items |-> EmptyItems]

PyDict(f) == [kind |-> "dict", items |-> f]

\* Truthiness: None, "" and {} are falsy.
Truthy(v) ==
    CASE v.kind = "None" -> FALSE
      [] v.kind = "emptystr" -> FALSE
      [] v.kind = "dict" -> DOMAIN v.items # {}
      [] OTHER -> TRUE

\* A JSON scalar.  A number is in one of five ranges: "datetime" (a timestamp
\* datetime represents, v is its value in seconds), "year_low" / "year_high"
\* (inside time_t, outside the years 1..9999), "time_t_low" / "time_t_high"
\* (outside time_t).  A string is named by its text.
NumValue(range, v) == [num |-> TRUE, range |-> range, v |-> v]

StrValue(text) == [num |-> FALSE, range |-> text, v |-> 0]

Margin == MarginMinutes * 60

\* datetime.fromtimestamp(x, UTC): TypeError for a non-number, OverflowError
\* outside time_t, ValueError outside the years 1..9999.
fromtimestamp(x) ==
    CASE ~x.num -> [exc |-> "TypeError", t |-> 0]
      [] x.num /\ x.range \in {"time_t_low", "time_t_high"} -> [exc |-> "OverflowError", t |-> 0]
      [] x.num /\ x.range \in {"year_low", "year_high"} -> [exc |-> "ValueError", t |-> 0]
      [] OTHER -> [exc |-> "none", t |-> x.v]

\* The comparison with the boundary counted as unexpired.
ExpiresAfterMarginInclusive(secret_expires, now) == secret_expires >= now + Margin

\* secret_expires > (datetime.now(UTC) + timedelta(minutes=5))
ExpiresAfterMargin(secret_expires, now) == secret_expires > now + Margin

required_keys == {"clientId", "clientSecret", "clientSecretExpiresAt"}

\* The outcome of a call: the exception it raises ("none" if it returns) and
\* the value it returns.
Returns(value) == [exc |-> "none", value |-> value]

Raises(exc) == [exc |-> exc, value |-> FALSE]

validate_id_client(id_client, now) ==
    IF ~Truthy(id_client) THEN Returns(FALSE)
    ELSE IF ~(required_keys \subseteq DOMAIN id_client.items) THEN Returns(FALSE)
    ELSE LET secret_expires == fromtimestamp(id_client.items["clientSecretExpiresAt"])
         IN  CASE secret_expires.exc = "none" ->
                      Returns(ExpiresAfterMargin(secret_expires.t, now))
               [] secret_expires.exc \in {"TypeError", "OverflowError"} -> Returns(FALSE)
               [] OTHER -> Raises(secret_expires.exc)

(* ----------------- validate_id_client as a pure function ---------------- *)
VARIABLES v_pc, v_id_client, v_now, v_result

vVars == <<v_pc, v_id_client, v_now, v_result>>

Nows == 1000..(1000 + MaxSkew)

RegistrationKeys == {"clientId", "clientSecret", "clientSecretExpiresAt", "clientIdIssuedAt"}

ExpiryValues(now) ==
    {NumValue("datetime", now + Margin + d) : d \in (0 - MaxSkew)..MaxSkew}
    \cup {NumValue(r, 0) : r \in {"year_low", "year_high", "time_t_low", "time_t_high"}}
    \cup {StrValue("soon")}

FieldValue(k, expiry) ==
    IF k = "clientSecretExpiresAt" THEN expiry ELSE StrValue("cached")

\* Every dict over the registration's keys, with every expiry value.
Registrations(now) ==
    {PyDict([k \in ks |-> FieldValue(k, e)]) :
        ks \in SUBSET RegistrationKeys, e \in ExpiryValues(now)}

ValidateIdle ==
    /\ v_pc = "idle"
    /\ v_id_client = PyNone
    /\ v_now = 0
    /\ v_result = Returns(FALSE)

InitValidate ==
    /\ v_pc = "call"
    /\ v_now \in Nows
    /\ v_id_client \in {PyNone, PyEmptyStr} \cup Registrations(v_now)
    /\ v_result = Returns(FALSE)

ValidateCall ==
    /\ v_pc = "call"
    /\ v_result' = validate_id_client(v_id_client, v_now)
    /\ v_pc' = "return"
    /\ UNCHANGED <<v_id_client, v_now>>

(* -------------------------------- claim C6 ----------------------------- *)
HasAllRequired(c) == c.kind = "dict" /\ required_keys \subseteq DOMAIN c.items

Expiry(c) == c.items["clientSecretExpiresAt"]

\* The expiry is a number strictly later than now + 5 minutes.
StrictlyLater(x, now) ==
    /\ x.num
    /\ \/ x.range \in {"year_high", "time_t_high"}
       \/ x.range = "datetime" /\ x.v > now + Margin

\* The expiry is a number at or before now + 5 minutes.
AtOrBefore(x, now) == x.num /\ ~StrictlyLater(x, now)

json_dumps(d) == [kind |-> "json", items |-> d.items]

\* json.loads of a str: the dict its text encodes, JSONDecodeError for text
\* that is not JSON.
json_loads(text) ==
    IF text.kind = "json" THEN [exc |-> "none", value |-> PyDict(text.items)]
    ELSE [exc |-> "JSONDecodeError", value |-> PyNone]

StoredKeys == <<"clientId", "clientSecret", "clientSecretExpiresAt", "clientIdIssuedAt">>

\* {k: id_client[k] for k in (...)}
StoredFields(id_client) ==
    PyDict([k \in {StoredKeys[i] : i \in 1..Len(StoredKeys)} |-> id_client.items[k]])

\* What register_client answers: the registration and the response metadata.
RegisterClientResponse ==
    PyDict([k \in RegistrationKeys \cup {"ResponseMetadata"} |->
               IF k = "clientSecretExpiresAt" THEN NumValue("datetime", 1000 + 7776000)
               ELSE IF k = "clientIdIssuedAt" THEN NumValue("datetime", 1000)
               ELSE StrValue("fresh")])

(* ------------------------------- progress ------------------------------ *)
\* A task of the process-wide rich Progress object.
ProgressTask(has_total, total) ==
    [has_total |-> has_total, total |-> total, completed |-> 0, finished |-> FALSE]

\* progress.add_task(description, total=...); total=None is has_total FALSE.
add_task(tasks, has_total, total) == Append(tasks, ProgressTask(has_total, total))

\* progress.update(task, total=..., completed=...)
update_task(tasks, id, total, completed) ==
    [tasks EXCEPT ![id] = [has_total |-> TRUE, total |-> total, completed |-> completed,
                           finished |-> tasks[id].finished \/ completed >= total]]

\* progress.advance(task)
advance_task(tasks, id) ==
    [tasks EXCEPT ![id] = [@ EXCEPT !.completed = @ + 1,
                                    !.finished = tasks[id].finished
                                        \/ (tasks[id].has_total
                                            /\ tasks[id].completed + 1 >= tasks[id].total)]]

\* progress.finished: every task of the object is finished.
progress_finished(tasks) == \A i \in 1..Len(tasks) : tasks[i].finished

(* ------------------------------- sorting ------------------------------- *)
\* sorted() of a list of str (stable insertion).
RECURSIVE InsertString(_, _)
InsertString(x, s) ==
    IF s = <<>> THEN <<x>>
    ELSE IF StrLess(x, Head(s)) THEN <<x>> \o s
    ELSE <<Head(s)>> \o InsertString(x, Tail(s))

RECURSIVE SortStrings(_)
SortStrings(s) ==
    IF s = <<>> THEN <<>>
    ELSE InsertString(s[Len(s)], SortStrings(SubSeq(s, 1, Len(s) - 1)))

\* sorted() of a set of distinct str.
RECURSIVE SortStringSet(_)
SortStringSet(S) ==
    IF S = {} THEN <<>>
    ELSE LET m == CHOOSE x \in S : \A y \in S : StrLeq(x, y)
         IN  <<m>> \o SortStringSet(S \ {m})

\* sorted(roles, key=itemgetter("roleName")), stable.
RECURSIVE InsertRole(_, _)
InsertRole(x, s) ==
    IF s = <<>> THEN <<x>>
    ELSE IF StrLess(x.roleName, Head(s).roleName) THEN <<x>> \o s
    ELSE <<Head(s)>> \o InsertRole(x, Tail(s))

RECURSIVE SortRoles(_)
SortRoles(s) ==
    IF s = <<>> THEN <<>>
    ELSE InsertRole(s[Len(s)], SortRoles(SubSeq(s, 1, Len(s) - 1)))

\* The loop order that leaves the directories as requested.
unsorted_directories(sso_directories) == sso_directories

\* sorted(sso_directories)
sorted_directories(sso_directories) == SortStrings(sso_directories)

(* ------------------------- profiles and blocks ------------------------- *)
RECURSIVE Flatten(_)
Flatten(ss) == IF ss = <<>> THEN <<>> ELSE Head(ss) \o Flatten(Tail(ss))

\* account_roles is a dict account name -> list of roles (a function).
build_config_profiles(account_roles, regex_replacements) ==
    LET names == SortStringSet(DOMAIN account_roles)
        ProfilesOf(account_name) ==
            LET roles == SortRoles(account_roles[account_name])
            IN  [i \in 1..Len(roles) |->
                    [name |-> munge_profile_name(account_name, roles[i].roleName,
                                                 regex_replacements),
                     account_name |-> account_name,
                     role_name |-> roles[i].roleName,
                     account_id |-> roles[i].accountId]]
    IN  Flatten([i \in 1..Len(names) |-> ProfilesOf(names[i])])

ProfileFields == {"profile_name", "account_name", "account_id", "role_name", "sso_session"}

\* template.format(...) raises KeyError for a placeholder that is neither one
\* of the five fields nor a key of extra_vars.
FormatRaises(placeholders, extra_vars) == ~(placeholders \subseteq ProfileFields \cup extra_vars)

\* A rendered block is the record of what was substituted into its template.
format_profile(profile, sso_session_name) ==
    [kind |-> "profile", sso_session |-> sso_session_name, profile_name |-> profile.name,
     account_name |-> profile.account_name, account_id |-> profile.account_id,
     role_name |-> profile.role_name]

SessionBlock(sso_directory) ==
    [kind |-> "session", sso_session |-> sso_directory, profile_name |-> <<>>,
     account_name |-> <<>>, account_id |-> 0, role_name |-> <<>>]

(* ----------------------------- directory API --------------------------- *)
AccountIds == 1..MaxAccounts

Role(roleName, accountId) == [roleName |-> roleName, accountId |-> accountId]

\* list_account_roles pages of the directory: the roles of an account, in
\* page order ("y" before "x" for the odd accounts).
DirectoryRoles(accountId) ==
    IF accountId % 2 = 1
    THEN <<Role(<<121>>, accountId), Role(<<120>>, accountId)>>
    ELSE <<Role(<<120>>, accountId)>>

DirectoryAccountNames == {<<65>>, <<66>>}

\* list_accounts pages of the directory: any of the accounts, each under any
\* of the names, listed by descending id.
AccountLists ==
    {al \in SeqsUpTo([accountId : AccountIds, accountName : DirectoryAccountNames],
                     MaxAccounts) :
        \A i, j \in 1..Len(al) : i < j => al[i].accountId > al[j].accountId}

\* get_roles(account, ...): {account["accountName"]: [roles]}
get_roles(account) == [name |-> account.accountName, roles |-> DirectoryRoles(account.accountId)]

\* account_roles.update(result)
DictUpdate(account_roles, result) ==
    [n \in DOMAIN account_roles \cup {result.name} |->
        IF n = result.name THEN result.roles ELSE account_roles[n]]

(* ------------------------------- the state ----------------------------- *)
VARIABLES
    pc,                  \* where the run is
    error,               \* the call whose exception ended the run, or "none"
    sso_directories,     \* --sso-directories, as requested
    profile_template,    \* the placeholders of --profile-template
    extra_vars,          \* the keys of --extra-vars
    regex_replacements,  \* --regex-replacements
    keyring,             \* the secret store's entry
    keyring_reads,       \* keyring.get_password calls
    keyring_writes,      \* keyring.set_password calls
    register_calls,      \* register_client calls
    id_client,           \* the registration generate_config_blocks holds
    dir_index,           \* position in sorted(sso_directories)
    progress,            \* the tasks of the process-wide Progress object
    auth_task,           \* create_access_token: its task id
    polls,               \* create_access_token: create_token requests so far
    slept,               \* create_access_token: seconds slept so far
    granted,             \* create_access_token: the first token a create_token returned
    last_poll,           \* create_access_token: outcome of the last create_token
    access_token,        \* create_access_token: its local access_token
    token,               \* generate_config_blocks: the token returned to it
    accounts,            \* list_accounts' result
    roles_task,          \* list_account_roles: its task id
    completed,           \* list_account_roles: futures as_completed has yielded
    account_roles,       \* list_account_roles: its dict
    config_blocks,       \* generate_config_blocks: its list
    stdout               \* what cli printed

inputVars == <<sso_directories, profile_template, extra_vars, regex_replacements>>

registrationVars == <<keyring, keyring_reads, keyring_writes, register_calls, id_client>>

tokenVars == <<auth_task, polls, slept, granted, last_poll, access_token, token>>

rolesVars == <<accounts, roles_task, completed, account_roles>>

runVars ==
    <<pc, error, inputVars, registrationVars, dir_index, progress, tokenVars, rolesVars,
      config_blocks, stdout>>

vars == <<runVars, mpVars, vVars>>

DirectoryNames == {<<97>>, <<97, 98>>}

\* click requires at least one --sso-directories.
DirectoryLists ==
    {<<(<<97>>)>>, <<(<<97, 98>>), (<<97>>)>>, <<(<<97>>), (<<97, 98>>)>>, <<(<<97>>), (<<97>>)>>}

DEFAULT_PROFILE_TEMPLATE == {"profile_name", "sso_session", "account_id", "role_name"}

\* (placeholders of the template, keys of extra_vars)
TemplateInputs ==
    {<<DEFAULT_PROFILE_TEMPLATE, {}>>,
     <<DEFAULT_PROFILE_TEMPLATE \cup {"region"}, {}>>,
     <<DEFAULT_PROFILE_TEMPLATE \cup {"region"}, {"region"}>>}

\* What the secret store may hold when the run starts.
KeyringEntries ==
    {PyNone, PyEmptyStr, PyGarbageStr}
    \cup {json_dumps(PyDict([k \in ks |-> FieldValue(k, e)])) :
            ks \in {RegistrationKeys, RegistrationKeys \ {"clientSecret"}, {}},
            e \in {NumValue("datetime", 1000 + Margin),
                   NumValue("datetime", 1000 + Margin + MaxSkew + 1),
                   NumValue("year_high", 0), NumValue("time_t_high", 0), StrValue("soon")}}

EmptyDict == [n \in {} |-> <<>>]

NoToken == 0

RunIdleLocals ==
    /\ auth_task = 0
    /\ polls = 0
    /\ slept = 0
    /\ granted = NoToken
    /\ last_poll = "none"
    /\ access_token = NoToken
    /\ token = NoToken
    /\ accounts = <<>>
    /\ roles_task = 0
    /\ completed = {}
    /\ account_roles = EmptyDict

InitRun ==
    /\ pc = "start"
    /\ error = "none"
    /\ sso_directories \in DirectoryLists
    /\ \E t \in TemplateInputs : profile_template = t[1] /\ extra_vars = t[2]
    /\ regex_replacements \in {<<>>, UnderscoreToX}
    /\ keyring \in KeyringEntries
    /\ keyring_reads = 0
    /\ keyring_writes = 0
    /\ register_calls = 0
    /\ id_client = PyNone
    /\ dir_index = 1
    /\ progress = <<>>
    /\ RunIdleLocals
    /\ config_blocks = <<>>
    /\ stdout = <<>>

RunIdle ==
    /\ pc = "idle"
    /\ error = "none"
    /\ sso_directories = <<>>
    /\ profile_template = {}
    /\ extra_vars = {}
    /\ regex_replacements = <<>>
    /\ keyring = PyNone
    /\ keyring_reads = 0
    /\ keyring_writes = 0
    /\ register_calls = 0
    /\ id_client = PyNone
    /\ dir_index = 1
    /\ progress = <<>>
    /\ RunIdleLocals
    /\ config_blocks = <<>>
    /\ stdout = <<>>

Init == InitRun /\ MungeIdle /\ ValidateIdle

\* An exception leaves generate_config_blocks and cli.
Fail(call) ==
    /\ pc' = "failed"
    /\ error' = call

(* ---------------------------- register_id_client ----------------------- *)
\* The outcome of the part of register_id_client before register_client:
\* saved_client and json.loads(saved_client), then validate_id_client.
CachedClient(saved_client) ==
    IF ~Truthy(saved_client) THEN [exc |-> "none", value |-> saved_client]
    ELSE json_loads(saved_client)

register_id_client ==
    /\ UNCHANGED <<mpVars, vVars>>
    /\ pc = "start"
    /\ keyring_reads' = keyring_reads + 1
    /\ \E now \in Nows, register_ok \in BOOLEAN :
        LET cached == CachedClient(keyring)
            valid == validate_id_client(cached.value, now)
        IN  IF cached.exc # "none"
            THEN /\ Fail(cached.exc)
                 /\ UNCHANGED <<keyring, keyring_writes, register_calls, id_client>>
            ELSE IF valid.exc # "none"
            THEN /\ Fail(valid.exc)
                 /\ UNCHANGED <<keyring, keyring_writes, register_calls, id_client>>
            ELSE IF valid.value
            THEN /\ id_client' = cached.value
                 /\ pc' = "device_auth"
                 /\ UNCHANGED <<error, keyring, keyring_writes, register_calls>>
            ELSE /\ register_calls' = register_calls + 1
                 /\ IF register_ok
                    THEN /\ id_client' = RegisterClientResponse
                         /\ keyring' = json_dumps(StoredFields(RegisterClientResponse))
                         /\ keyring_writes' = keyring_writes + 1
                         /\ pc' = "device_auth"
                         /\ UNCHANGED error
                    ELSE /\ Fail("register_client")
                         /\ UNCHANGED <<keyring, keyring_writes, id_client>>
    /\ UNCHANGED <<inputVars, dir_index, progress, tokenVars, rolesVars, config_blocks, stdout>>

(* --------------------------- create_access_token ----------------------- *)
sso_directory == sorted_directories(sso_directories)[dir_index]

\* A handler that caught every exception of create_token.
RetryableAny(outcome) == outcome \in {"pending", "error"}

\* except oidc_client.exceptions.AuthorizationPendingException
Retryable(outcome) == outcome = "pending"

\* The head of the while loop, reached with the tasks as they are after n
\* requests and s seconds of sleep: the next create_token while the Progress
\* object is unfinished, else return access_token.
LoopHead(tasks, tok, n, s) ==
    IF progress_finished(tasks)
    THEN /\ pc' = "list_accounts"
         /\ token' = tok
         /\ polls' = 0
         /\ slept' = 0
    ELSE /\ pc' = "poll"
         /\ polls' = n
         /\ slept' = s
         /\ UNCHANGED token

start_device_authorization ==
    /\ UNCHANGED <<mpVars, vVars>>
    /\ pc = "device_auth"
    /\ \E ok \in BOOLEAN :
        IF ok
        THEN /\ progress' = add_task(progress, FALSE, 0)
             /\ auth_task' = Len(progress) + 1
             /\ granted' = NoToken
             /\ last_poll' = "none"
             /\ access_token' = NoToken
             /\ LoopHead(progress', NoToken, 0, 0)
             /\ UNCHANGED error
        ELSE /\ Fail("start_device_authorization")
             /\ UNCHANGED <<progress, tokenVars>>
    /\ UNCHANGED <<inputVars, registrationVars, dir_index, rolesVars, config_blocks, stdout>>

create_token ==
    /\ UNCHANGED <<mpVars, vVars>>
    /\ pc = "poll"
    /\ polls < MaxPolls
    /\ \E outcome \in {"token", "pending", "error"} :
        /\ last_poll' = outcome
        /\ IF outcome = "token"
           THEN /\ access_token' = polls + 1
                /\ granted' = IF granted = NoToken THEN polls + 1 ELSE granted
                /\ progress' = update_task(progress, auth_task, 100, 100)
                /\ LoopHead(progress', access_token', polls + 1, slept)
                /\ UNCHANGED error
           ELSE IF Retryable(outcome)
           THEN /\ LoopHead(progress, access_token, polls + 1, slept + PollInterval)
                /\ UNCHANGED <<error, progress, granted, access_token>>
           ELSE /\ Fail("create_token")
                /\ polls' = polls + 1
                /\ UNCHANGED <<progress, slept, granted, access_token, token>>
    /\ UNCHANGED <<inputVars, registrationVars, dir_index, auth_task, rolesVars,
                   config_blocks, stdout>>

(* ------------------------------ list_accounts -------------------------- *)
list_accounts ==
    /\ UNCHANGED <<mpVars, vVars>>
    /\ pc = "list_accounts"
    /\ \/ \E al \in AccountLists :
            /\ accounts' = al
            /\ progress' = update_task(add_task(progress, FALSE, 0), Len(progress) + 1, 100, 100)
            /\ pc' = "list_account_roles"
            /\ UNCHANGED error
       \/ /\ progress' = add_task(progress, FALSE, 0)
          /\ Fail("list_accounts")
          /\ UNCHANGED accounts
    /\ UNCHANGED <<inputVars, registrationVars, dir_index, tokenVars, roles_task, completed,
                   account_roles, config_blocks, stdout>>

(* ---------------------------- list_account_roles ----------------------- *)
\* The task is added and one get_roles per account is submitted; with no
\* account the as_completed loop is empty and the function returns.
list_account_roles ==
    /\ UNCHANGED <<mpVars, vVars>>
    /\ pc = "list_account_roles"
    /\ account_roles' = EmptyDict
    /\ progress' = add_task(progress, TRUE, Len(accounts))
    /\ roles_task' = Len(progress) + 1
    /\ completed' = {}
    /\ pc' = IF accounts = <<>> THEN "render" ELSE "as_completed"
    /\ UNCHANGED <<error, inputVars, registrationVars, dir_index, tokenVars, accounts,
                   config_blocks, stdout>>

\* The pool runs the futures in submission order, max_workers at a time:
\* future i has started once fewer than max_workers earlier ones are running.
Started(i, done) == Cardinality({j \in 1..(i - 1) : j \notin done}) < max_workers

\* as_completed yields future i: its result is merged and the task advanced,
\* or its exception leaves list_account_roles.
as_completed ==
    /\ UNCHANGED <<mpVars, vVars>>
    /\ pc = "as_completed"
    /\ \E i \in (1..Len(accounts)) \ completed :
        /\ Started(i, completed)
        /\ \/ /\ account_roles' = DictUpdate(account_roles, get_roles(accounts[i]))
              /\ progress' = advance_task(progress, roles_task)
              /\ completed' = completed \cup {i}
              /\ pc' = IF completed' = 1..Len(accounts) THEN "render" ELSE "as_completed"
              /\ UNCHANGED error
           \/ /\ Fail("list_account_roles")
              /\ UNCHANGED <<account_roles, progress, completed>>
    /\ UNCHANGED <<inputVars, registrationVars, dir_index, tokenVars, accounts, roles_task,
                   config_blocks, stdout>>

(* ------------------- build_config_profiles, rendering ------------------ *)
\* The rest of the loop body: the profiles are built, the session block is
\* appended, the profile blocks are formatted and appended; after the last
\* directory generate_config_blocks returns.
render_directory ==
    /\ UNCHANGED <<mpVars, vVars>>
    /\ pc = "render"
    /\ LET profiles == build_config_profiles(account_roles, regex_replacements)
           with_session == Append(config_blocks, SessionBlock(sso_directory))
       IN  IF profiles # <<>> /\ FormatRaises(profile_template, extra_vars)
           THEN /\ config_blocks' = with_session
                /\ Fail("KeyError")
                /\ UNCHANGED dir_index
           ELSE /\ config_blocks' =
                       with_session
                       \o [i \in 1..Len(profiles) |-> format_profile(profiles[i], sso_directory)]
                /\ IF dir_index < Len(sso_directories)
                   THEN dir_index' = dir_index + 1 /\ pc' = "device_auth"
                   ELSE UNCHANGED dir_index /\ pc' = "returned"
                /\ UNCHANGED error
    /\ auth_task' = 0
    /\ polls' = 0
    /\ slept' = 0
    /\ granted' = NoToken
    /\ last_poll' = "none"
    /\ access_token' = NoToken
    /\ token' = NoToken
    /\ accounts' = <<>>
    /\ roles_task' = 0
    /\ completed' = {}
    /\ account_roles' = EmptyDict
    /\ UNCHANGED <<inputVars, registrationVars, progress, stdout>>

(* ---------------------------------- cli -------------------------------- *)
\* A print that also runs when generate_config_blocks raised.
cli_print_always ==
    /\ UNCHANGED <<mpVars, vVars>>
    /\ pc \in {"returned", "failed"}
    /\ stdout' = config_blocks
    /\ pc' = "printed"
    /\ UNCHANGED <<error, inputVars, registrationVars, dir_index, progress, tokenVars,
                   rolesVars, config_blocks>>

\* print(generate_config_blocks(...)): the joined blocks reach stdout.
cli ==
    /\ UNCHANGED <<mpVars, vVars>>
    /\ pc = "returned"
    /\ stdout' = config_blocks
    /\ pc' = "printed"
    /\ UNCHANGED <<error, inputVars, registrationVars, dir_index, progress, tokenVars,
                   rolesVars, config_blocks>>

Next ==
    \/ register_id_client
    \/ start_device_authorization
    \/ create_token
    \/ list_accounts
    \/ list_account_roles
    \/ as_completed
    \/ render_directory
    \/ cli

Spec == Init /\ [][Next]_vars

NextMunge == MungeCall /\ UNCHANGED <<runVars, vVars>>

InitMungeSpec == InitMunge /\ RunIdle /\ ValidateIdle

SpecMunge == InitMungeSpec /\ [][NextMunge]_vars

NextValidate == ValidateCall /\ UNCHANGED <<runVars, mpVars>>

InitValidateSpec == InitValidate /\ RunIdle /\ MungeIdle

SpecValidate == InitValidateSpec /\ [][NextValidate]_vars

(* ======================================================================= *)
(* Claims about the run                                                    *)
(* ======================================================================= *)

\* C1: once a create_token of a directory has returned a token, no further
\* create_token request is issued for that directory, and the token handed
\* back to generate_config_blocks is that token.
C1_GrantedIsTerminal ==
    /\ [][(pc = "poll" /\ granted # NoToken) => polls' = polls]_vars
    /\ [](token # NoToken => token = granted)

\* The three malformed kinds of C3: a str that is not JSON, an object
\* without one of the required keys, a non-numeric clientSecretExpiresAt.
Malformed(entry) ==
    \/ entry.kind = "garbagestr"
    \/ /\ entry.kind = "json"
       /\ \/ ~(required_keys \subseteq DOMAIN entry.items)
          \/ ~entry.items["clientSecretExpiresAt"].num

\* C3: with a malformed entry in the secret store register_id_client raises
\* nothing of its own: register_client is called, and when it answers, the
\* fresh registration is stored and returned.
C3_MalformedCacheIsAMiss ==
    [][(pc = "start" /\ Malformed(keyring)) =>
          /\ error' \in {"none", "register_client"}
          /\ register_calls' = 1
          /\ error' = "none" =>
                /\ id_client' = RegisterClientResponse
                /\ keyring' = json_dumps(StoredFields(RegisterClientResponse))]_vars

\* The dict list_account_roles builds when the futures complete in the order
\* they were submitted.
RECURSIVE SubmissionOrderRoles(_)
SubmissionOrderRoles(al) ==
    IF al = <<>> THEN EmptyDict
    ELSE DictUpdate(SubmissionOrderRoles(SubSeq(al, 1, Len(al) - 1)), get_roles(al[Len(al)]))

\* C4: whatever the order in which the futures completed, the profiles built
\* from list_account_roles' result are those of the submission order.
C4_ProfilesIndependentOfCompletionOrder ==
    pc = "render" =>
        build_config_profiles(account_roles, regex_replacements)
            = build_config_profiles(SubmissionOrderRoles(accounts), regex_replacements)

\* C5: a run that failed in any step printed nothing, and text is on stdout
\* only after generate_config_blocks returned without an error.
C5_NoOutputUnlessFullSuccess ==
    /\ error # "none" => (pc = "failed" /\ stdout = <<>>)
    /\ pc \in {"returned", "printed"} => error = "none"
    /\ stdout # <<>> => (pc = "printed" /\ error = "none")

\* C5's case: the run failed in its second directory, with the blocks of the
\* first one already in config_blocks.
C5_Witness ==
    /\ pc = "failed"
    /\ dir_index = 2
    /\ \E i \in 1..Len(config_blocks) : config_blocks[i].kind = "profile"
    /\ stdout = <<>>

SessionNames(blocks) ==
    LET sessions == SelectSeq(blocks, LAMBDA b : b.kind = "session")
    IN  [i \in 1..Len(sessions) |-> sessions[i].sso_session]

Count(seq, x) == Cardinality({i \in 1..Len(seq) : seq[i] = x})

\* (account name, role name) of block a is not after that of block b.
ProfileKeyLeq(a, b) ==
    \/ StrLess(a.account_name, b.account_name)
    \/ a.account_name = b.account_name /\ StrLeq(a.role_name, b.role_name)

\* C7: the printed text starts with a session block; the session blocks are
\* the requested directories in lexicographic order; every profile block
\* belongs to the session block before it, and the profile blocks after a
\* session block are in (account name, role name) order.
C7_OutputOrder ==
    pc = "printed" =>
        LET names == SessionNames(stdout)
        IN  /\ stdout # <<>> /\ stdout[1].kind = "session"
            /\ \A i \in 1..(Len(names) - 1) : StrLeq(names[i], names[i + 1])
            /\ \A d \in DirectoryNames : Count(names, d) = Count(sso_directories, d)
            /\ \A i \in 2..Len(stdout) :
                  stdout[i].kind = "profile" =>
                      /\ stdout[i].sso_session = stdout[i - 1].sso_session
                      /\ stdout[i - 1].kind = "profile" => ProfileKeyLeq(stdout[i - 1], stdout[i])

\* C7's case: two directories requested in descending order, and a directory
\* with profiles of two account names.
C7_Witness ==
    /\ pc = "printed"
    /\ Len(sso_directories) = 2
    /\ StrLess(sso_directories[2], sso_directories[1])
    /\ \E i, j \in 1..Len(stdout) :
          /\ stdout[i].kind = "profile" /\ stdout[j].kind = "profile"
          /\ stdout[i].sso_session = stdout[j].sso_session
          /\ stdout[i].account_name # stdout[j].account_name

\* C8: a pending create_token is followed by PollInterval seconds of sleep and
\* the loop head again; any other failure of create_token, and a failure of
\* start_device_authorization, ends the run at once with no token returned;
\* after a failure no create_token is issued.
C8_OnlyPendingIsRetried ==
    /\ [][pc = "poll" =>
            /\ last_poll' = "pending" =>
                  (pc' = "poll" /\ slept' = slept + PollInterval /\ error' = "none")
            /\ last_poll' = "error" =>
                  (pc' = "failed" /\ error' = "create_token" /\ token' = NoToken)]_vars
    /\ [][(pc = "device_auth" /\ error' # "none") =>
            (pc' = "failed" /\ polls' = 0 /\ token' = NoToken)]_vars
    /\ [][pc = "failed" => polls' = polls]_vars

\* C8's case: a pending poll was retried and the next poll failed otherwise.
C8_Witness ==
    /\ pc = "failed"
    /\ error = "create_token"
    /\ slept = PollInterval
    /\ polls = 2

\* The cached registration is valid / invalid whatever the clock reads.
CacheValid(entry) ==
    /\ entry.kind = "json"
    /\ \A now \in Nows : validate_id_client(PyDict(entry.items), now) = Returns(TRUE)

\* C9: the secret store is read once per run; with a valid cached
\* registration register_client is not called, nothing is written and the
\* cached registration is used; otherwise register_client is called once and,
\* once it answered, one write stores exactly the four fields; after
\* register_id_client nothing of this changes for any directory.
C9_RegisterOncePerRun ==
    [][IF pc = "start"
       THEN /\ keyring_reads' = 1
            /\ IF CacheValid(keyring)
               THEN /\ register_calls' = 0
                    /\ keyring_writes' = 0
                    /\ keyring' = keyring
                    /\ id_client' = PyDict(keyring.items)
               ELSE /\ register_calls' = 1
                    /\ error' = "none" =>
                          /\ keyring_writes' = 1
                          /\ keyring'.kind = "json"
                          /\ DOMAIN keyring'.items = RegistrationKeys
                          /\ \A k \in RegistrationKeys :
                                keyring'.items[k] = RegisterClientResponse.items[k]
       ELSE UNCHANGED registrationVars]_vars

====
